---- MODULE Spec2Model ----
(***************************************************************************)
(* CrossAsset: the data alignment and transformation pipeline of           *)
(* src/data_loader.py as driven by the script of src/app.py.               *)
(*                                                                         *)
(* A table (pandas DataFrame) is a record                                  *)
(*   [index : sequence of dates, columns : sequence of names,              *)
(*    data  : name -> (date -> value)].                                    *)
(* A value is a binary floating-point number of Precision significant bits *)
(* (float64 has 53; the exponent range is not bounded here), an infinity   *)
(* or NaN, which is pandas' missing value.  A logarithm, a rolling mean or  *)
(* deviation, a correlation and a regression fit are kept as terms over    *)
(* the values they are computed from.                                      *)
(*                                                                         *)
(* Spec      one run of the script over every small upstream state, with   *)
(*           the view's widgets at their defaults;                         *)
(* SpecCache repeated runs over one upstream state while the clock         *)
(*           advances past the cache's expiry;                             *)
(* SpecLong  one run over a history longer than a month of rows, with the  *)
(*           portfolio, lead/lag and correlation widgets in use;           *)
(* SpecCall  one direct call of one transformer on one table.              *)
(***************************************************************************)
EXTENDS Integers, Sequences, FiniteSets, TLC

----------------------------------------------------------------------------
(* Bounds of the model *)

MaxDate == 3        \* the calendar has MaxDate dates, YearDays apart
MaxRows == 3        \* the providers hold at most MaxRows rows in all
Precision == 5      \* significand bits of a floating-point value
MaxTicks == 2       \* the clock advances at most MaxTicks times
MaxExtra == 3       \* a long history has MaxExtra rows beyond one month of rows
MaxLen == 2         \* a short table has at most MaxLen rows

(* Program constants *)

TTL == 3600         \* @st.cache_data(ttl=3600)
YearDays == 365     \* timedelta(days=365)
TickSeconds == 1800 \* granularity of the clock (two ticks make one TTL)

----------------------------------------------------------------------------
(* Floating-point values *)

Fin(s, m, e) == [k |-> "fin", s |-> s, m |-> m, e |-> e]
NaN == [k |-> "nan", s |-> 1, m |-> 0, e |-> 0]
Inf(s) == [k |-> "inf", s |-> s, m |-> 0, e |-> 0]
Zero == Fin(1, 0, 0)
Dot == [k |-> "dot", s |-> 1, m |-> 0, e |-> 0]

IsNaN(v) == v.k = "nan"
IsInf(v) == v.k = "inf"
IsFin(v) == v.k = "fin"
IsZero(v) == v.k = "fin" /\ v.m = 0
notna(v) == ~IsNaN(v)

(* s * (n / d) * 2^e, n > 0 and d > 0, rounded to the nearest value of      *)
(* Precision bits, ties to even (IEEE 754 round-half-even).                *)
RECURSIVE RoundQ(_, _, _, _)
RoundQ(s, n, d, e) ==
    IF n < d * 2^(Precision - 1) THEN RoundQ(s, 2 * n, d, e - 1)
    ELSE IF n >= d * 2^Precision THEN RoundQ(s, n, 2 * d, e + 1)
    ELSE LET q == n \div d
             r == n % d
             up == (2 * r > d) \/ (2 * r = d /\ q % 2 = 1)
             m == IF up THEN q + 1 ELSE q
         IN  IF m = 2^Precision THEN Fin(s, 2^(Precision - 1), e + 1)
             ELSE Fin(s, m, e)

FromInt(n) ==
    IF n = 0 THEN Zero
    ELSE IF n < 0 THEN RoundQ(-1, -n, 1, 0) ELSE RoundQ(1, n, 1, 0)

(* numpy true division of two float64 cells *)
FDiv(a, b) ==
    IF IsNaN(a) \/ IsNaN(b) THEN NaN
    ELSE IF IsInf(a) THEN (IF IsInf(b) THEN NaN ELSE Inf(a.s * b.s))
    ELSE IF IsInf(b) THEN Zero
    ELSE IF IsZero(b) THEN (IF IsZero(a) THEN NaN ELSE Inf(a.s))
    ELSE IF IsZero(a) THEN Zero
    ELSE RoundQ(a.s * b.s, a.m, b.m, a.e - b.e)

(* numpy multiplication of two float64 cells *)
FMul(a, b) ==
    IF IsNaN(a) \/ IsNaN(b) THEN NaN
    ELSE IF IsInf(a) \/ IsInf(b)
         THEN (IF IsZero(a) \/ IsZero(b) THEN NaN ELSE Inf(a.s * b.s))
    ELSE IF IsZero(a) \/ IsZero(b) THEN Zero
    ELSE RoundQ(a.s * b.s, a.m * b.m, 1, a.e + b.e)

FNeg(a) == IF IsFin(a) \/ IsInf(a) THEN [a EXCEPT !.s = -a.s] ELSE a

(* numpy addition of two float64 cells *)
FAdd(a, b) ==
    IF IsNaN(a) \/ IsNaN(b) THEN NaN
    ELSE IF IsInf(a) THEN (IF IsInf(b) /\ a.s # b.s THEN NaN ELSE a)
    ELSE IF IsInf(b) THEN b
    ELSE IF IsZero(a) THEN b
    ELSE IF IsZero(b) THEN a
    ELSE LET e0 == IF a.e < b.e THEN a.e ELSE b.e
             n == a.s * a.m * 2^(a.e - e0) + b.s * b.m * 2^(b.e - e0)
         IN  IF n = 0 THEN Zero
             ELSE IF n < 0 THEN RoundQ(-1, -n, 1, e0) ELSE RoundQ(1, n, 1, e0)

(* numpy subtraction of two float64 cells *)
FSub(a, b) == FAdd(a, FNeg(b))

(* np.log of one cell: the logarithm of a positive finite value other than *)
(* 1 is kept as the term log(value); log(0) is -inf, the logarithm of a     *)
(* negative value is NaN (with a RuntimeWarning, not an exception)          *)
FLog(a) ==
    IF IsNaN(a) THEN NaN
    ELSE IF IsInf(a) THEN (IF a.s = 1 THEN a ELSE NaN)
    ELSE IF IsZero(a) THEN Inf(-1)
    ELSE IF a.s = -1 THEN NaN
    ELSE IF a = RoundQ(1, 1, 1, 0) THEN Zero
    ELSE [k |-> "log", s |-> 1, m |-> a.m, e |-> a.e]

----------------------------------------------------------------------------
(* Sequences and tables *)

Range(s) == {s[i] : i \in DOMAIN s}

Min(S) == CHOOSE x \in S : \A y \in S : x <= y
Max(S) == CHOOSE x \in S : \A y \in S : y <= x

RECURSIVE SortedSeq(_)
SortedSeq(S) == IF S = {} THEN <<>> ELSE <<Min(S)>> \o SortedSeq(S \ {Min(S)})

(* the elements of s from position i on that are in keep, in order *)
RECURSIVE SelectIdx(_, _, _)
SelectIdx(s, keep, i) ==
    IF i > Len(s) THEN <<>>
    ELSE (IF s[i] \in keep THEN <<s[i]>> ELSE <<>>) \o SelectIdx(s, keep, i + 1)

Filter(s, keep) == SelectIdx(s, keep, 1)

(* the table of the given axes whose cell (c, d) is cells[c, d] *)
MkDF(index, columns, cells) ==
    [index |-> index, columns |-> columns,
     data |-> [c \in Range(columns) |-> [d \in Range(index) |-> cells[c, d]]]]

(* the rows of df labelled by index, which is a part of df's index *)
Rows(df, index) ==
    MkDF(index, df.columns,
         [c \in Range(df.columns), d \in Range(df.index) |-> df.data[c][d]])

EmptyDF == MkDF(<<>>, <<>>, <<>>)

empty(df) == Len(df.index) = 0 \/ Len(df.columns) = 0

(* a Series is a one-column table; NoSeries stands for None *)
NoSeries == EmptyDF

(* df.dropna(): drop the rows holding a missing value in any column *)
dropna(df) ==
    Rows(df, Filter(df.index, {d \in Range(df.index) :
                                  \A c \in Range(df.columns) : notna(df.data[c][d])}))

(* dropna(how='any') in place of how='all' *)
dropna_any(df) == dropna(df)

(* df.dropna(how='all'): drop the rows whose columns are all missing *)
dropna_all(df) ==
    Rows(df, Filter(df.index, {d \in Range(df.index) :
                                  \E c \in Range(df.columns) : notna(df.data[c][d])}))

(* ffill(limit=1): a gap is filled from the row directly above only *)
FfillAtLimit1(col, index, i) ==
    IF notna(col[index[i]]) THEN col[index[i]]
    ELSE IF i = 1 THEN NaN
    ELSE col[index[i - 1]]

(* the value of row i of a column after Series.ffill(): the row's own value *)
(* if present, else the filled value of the row above                      *)
RECURSIVE FfillAt(_, _, _)
FfillAt(col, index, i) ==
    IF notna(col[index[i]]) THEN col[index[i]]
    ELSE IF i = 1 THEN NaN
    ELSE FfillAt(col, index, i - 1)

Pos(index, d) == CHOOSE i \in DOMAIN index : index[i] = d

(* df.ffill() *)
ffill(df) ==
    MkDF(df.index, df.columns,
         [c \in Range(df.columns), d \in Range(df.index) |->
             FfillAt(df.data[c], df.index, Pos(df.index, d))])

(* df.columns = [name] on a one-column table *)
rename(df, name) ==
    MkDF(df.index, <<name>>,
         [c \in {name}, d \in Range(df.index) |-> df.data[df.columns[1]][d]])

RECURSIVE ConcatColumns(_)
ConcatColumns(dfs) ==
    IF dfs = <<>> THEN <<>> ELSE Head(dfs).columns \o ConcatColumns(Tail(dfs))

Owner(dfs, c) == dfs[CHOOSE j \in DOMAIN dfs : c \in Range(dfs[j].columns)]

(* pd.concat(dfs, axis=1): outer join on the sorted union of the indexes *)
concat(dfs) ==
    LET index == SortedSeq(UNION {Range(dfs[j].index) : j \in DOMAIN dfs})
        columns == ConcatColumns(dfs)
    IN  MkDF(index, columns,
             [c \in Range(columns), d \in Range(index) |->
                 IF d \in Range(Owner(dfs, c).index)
                 THEN Owner(dfs, c).data[c][d] ELSE NaN])

----------------------------------------------------------------------------
(* The catalog and the providers *)

FRED_SERIES == [n \in {"M2 Money Supply"} |-> "M2SL"]
ASSET_TICKERS == [n \in {"Gold"} |-> "GC=F"]

Dates == {YearDays * i : i \in 1..MaxDate}

(* what a provider may hold for one series: dated rows *)
RawSeries(values) ==
    UNION {[S -> values] : S \in {T \in SUBSET Dates : Cardinality(T) <= MaxRows}}

RowCount(raw) == Cardinality(DOMAIN raw)

(* a FRED csv cell is a number or the '.' placeholder *)
FredCells == {Dot, FromInt(11)}
(* a Yahoo close is a number or NaN *)
CloseCells == {NaN, FromInt(0), FromInt(3)}

VARIABLES
    provider,        \* series id or ticker -> the rows the upstream source holds
    cache,           \* the st.cache_data store of get_combined_data
    now,             \* the clock, in seconds
    pc,              \* the position of the script run of app.py
    selected_refs,   \* app.py: the Reference Metrics multiselect
    selected_assets, \* app.py: the Assets to Track multiselect
    time_range,      \* app.py: the Timeline selectbox
    start_date,      \* app.py: Custom start (0 when unset)
    end_date,        \* app.py: Custom end (0 when unset)
    combined_df,     \* app.py: the table the run works on
    all_dfs,         \* get_combined_data: the list merged by its last execution for combined_df
    requests,        \* the provider requests issued by this run, in order
    calls,           \* the keys get_combined_data was called with by this run
    errors,          \* the names whose fetch raised and showed st.error in this run
    report,          \* the message the run shows: "none", "select", "no_data"
    denominate_in,   \* app.py: the Denominate Assets In selectbox
    denom_df,        \* app.py: the separately fetched denominator table
    denom_series,    \* app.py: the divisor column (NoSeries for None)
    norm_mode,       \* app.py: the Adjustment Mode radio
    plot_df,         \* app.py: the normalized table
    portfolio_weights, \* app.py: the Portfolio Builder weights, as (asset, weight) items
    lead_lag_months, \* app.py: the Shift Assets (Months) slider
    shifted_df,      \* app.py: the table after the lead/lag shift
    corr_window,     \* app.py: the Correlation Window slider
    corr_series,     \* app.py: the rolling correlation (NoSeries when not computed)
    table,           \* a direct call of a transformer: the caller's table
    fn,              \* the function called ("none" before the call)
    args,            \* the other arguments of the call
    returned         \* what the call returned

vars == <<provider, cache, now, pc, selected_refs, selected_assets,
          time_range, start_date, end_date, combined_df, all_dfs, requests,
          calls, errors, report, denominate_in, denom_df, denom_series, norm_mode,
          plot_df, portfolio_weights, lead_lag_months, shifted_df, corr_window,
          corr_series, table, fn, args, returned>>

view == <<portfolio_weights, lead_lag_months, shifted_df, corr_window, corr_series>>
call == <<table, fn, args, returned>>

(* pd.to_numeric(..., errors='coerce') on one cell *)
to_numeric(v) == IF v.k = "dot" THEN NaN ELSE v

(* fetch_fred_data; ok is FALSE when the request or the parse raises *)
fetch_fred_data(series_id, ok) ==
    IF ~ok THEN EmptyDF
    ELSE LET raw == provider[series_id]
         IN  dropna(MkDF(SortedSeq(DOMAIN raw), <<series_id>>,
                         [c \in {series_id}, d \in DOMAIN raw |-> to_numeric(raw[d])]))

(* fetch_yfinance_data; ok is FALSE when yf.download raises *)
fetch_yfinance_data(ticker, period, ok) ==
    IF ~ok THEN EmptyDF
    ELSE LET data == provider[ticker]
         IN  IF DOMAIN data = {} THEN EmptyDF
             ELSE MkDF(SortedSeq(DOMAIN data), <<ticker>>,
                       [c \in {ticker}, d \in DOMAIN data |-> data[d]])

(* the loop over fred_series_list: the fetched, renamed, non-empty tables *)
RECURSIVE FetchFredLoop(_, _)
FetchFredLoop(names, failed) ==
    IF names = <<>> THEN <<>>
    ELSE LET name == Head(names)
             df == fetch_fred_data(FRED_SERIES[name], name \notin failed)
         IN  (IF name \in DOMAIN FRED_SERIES /\ ~empty(df)
              THEN <<rename(df, name)>> ELSE <<>>)
             \o FetchFredLoop(Tail(names), failed)

(* the loop over asset_ticker_list *)
RECURSIVE FetchAssetLoop(_, _, _)
FetchAssetLoop(names, period, failed) ==
    IF names = <<>> THEN <<>>
    ELSE LET name == Head(names)
             df == fetch_yfinance_data(ASSET_TICKERS[name], period, name \notin failed)
         IN  (IF name \in DOMAIN ASSET_TICKERS /\ ~empty(df)
              THEN <<rename(df, name)>> ELSE <<>>)
             \o FetchAssetLoop(Tail(names), period, failed)

(* the provider requests one execution of the body issues, in order *)
RequestsOf(fred_series_list, asset_ticker_list) ==
    Filter(fred_series_list, DOMAIN FRED_SERIES)
    \o Filter(asset_ticker_list, DOMAIN ASSET_TICKERS)

(* a fetch that raises is not caught and nothing is merged *)
FetchAllOrNothing(fred_series_list, asset_ticker_list, period, failed) ==
    IF failed \cap Range(RequestsOf(fred_series_list, asset_ticker_list)) # {} THEN <<>>
    ELSE FetchFredLoop(fred_series_list, failed)
         \o FetchAssetLoop(asset_ticker_list, period, failed)

FetchAll(fred_series_list, asset_ticker_list, period, failed) ==
    FetchFredLoop(fred_series_list, failed)
    \o FetchAssetLoop(asset_ticker_list, period, failed)

(* lines 113-124: merge, forward fill, drop the all-missing rows *)
Combine(dfs) ==
    IF dfs = <<>> THEN EmptyDF ELSE dropna_all(ffill(concat(dfs)))

(* @st.cache_data(ttl=3600): an entry is served while it is younger than TTL *)
CacheKey(fred_series_list, asset_ticker_list, period) ==
    <<fred_series_list, asset_ticker_list, period>>

(* st.cache_data without a ttl: an entry never expires *)
FreshForever(c, key, t) == key \in DOMAIN c

Fresh(c, key, t) == key \in DOMAIN c /\ t - c[key].stored < TTL

(* a call in which a fetch failed stores nothing *)
get_combined_data_unless_failed(fred_series_list, asset_ticker_list, period, failed, c, t) ==
    LET key == CacheKey(fred_series_list, asset_ticker_list, period)
        errs == failed \cap Range(RequestsOf(fred_series_list, asset_ticker_list))
    IN  IF Fresh(c, key, t)
        THEN [ret |-> c[key].value, cache |-> c, requests |-> <<>>,
              errors |-> {}, all_dfs |-> <<>>]
        ELSE LET dfs == FetchAll(fred_series_list, asset_ticker_list, period, failed)
                 ret == Combine(dfs)
             IN  [ret |-> ret,
                  cache |-> IF errs # {} THEN c
                            ELSE [k \in DOMAIN c \cup {key} |->
                                    IF k = key THEN [value |-> ret, stored |-> t]
                                    ELSE c[k]],
                  requests |-> RequestsOf(fred_series_list, asset_ticker_list),
                  errors |-> errs,
                  all_dfs |-> dfs]

(* one call of the cached get_combined_data at time t against cache c *)
get_combined_data(fred_series_list, asset_ticker_list, period, failed, c, t) ==
    LET key == CacheKey(fred_series_list, asset_ticker_list, period)
    IN  IF Fresh(c, key, t)
        THEN [ret |-> c[key].value, cache |-> c, requests |-> <<>>,
              errors |-> {}, all_dfs |-> <<>>]
        ELSE LET dfs == FetchAll(fred_series_list, asset_ticker_list, period, failed)
                 ret == Combine(dfs)
             IN  [ret |-> ret,
                  cache |-> [k \in DOMAIN c \cup {key} |->
                               IF k = key THEN [value |-> ret, stored |-> t] ELSE c[k]],
                  requests |-> RequestsOf(fred_series_list, asset_ticker_list),
                  errors |-> failed \cap Range(RequestsOf(fred_series_list, asset_ticker_list)),
                  all_dfs |-> dfs]

----------------------------------------------------------------------------
(* The script run of app.py *)

RefChoices == {<<>>, <<"M2 Money Supply">>}
AssetChoices == {<<>>, <<"Gold">>}
TimeRanges == {"1y", "5y", "10y", "20y", "max", "Custom"}
Lookback == [r \in {"1y", "5y", "10y", "20y"} |->
               IF r = "1y" THEN 1 ELSE IF r = "5y" THEN 5
               ELSE IF r = "10y" THEN 10 ELSE 20]

(* a process that has not run the script yet: nothing cached *)
InitRun ==
    /\ cache = <<>>
    /\ now = 0
    /\ pc = "idle"
    /\ selected_refs = <<>>
    /\ selected_assets = <<>>
    /\ time_range = "10y"
    /\ start_date = 0
    /\ end_date = 0
    /\ combined_df = EmptyDF
    /\ all_dfs = <<>>
    /\ requests = <<>>
    /\ calls = <<>>
    /\ errors = {}
    /\ report = "none"
    /\ denominate_in = "USD"
    /\ denom_df = EmptyDF
    /\ denom_series = NoSeries
    /\ norm_mode = "Index=100"
    /\ plot_df = EmptyDF
    /\ portfolio_weights = <<>>
    /\ lead_lag_months = 0
    /\ shifted_df = EmptyDF
    /\ corr_window = 180
    /\ corr_series = NoSeries

(* no transformer is called apart from the script *)
NoCall ==
    /\ table = EmptyDF
    /\ fn = "none"
    /\ args = <<>>
    /\ returned = EmptyDF

Init ==
    /\ provider \in {[id \in {"M2SL", "GC=F"} |-> IF id = "M2SL" THEN f ELSE g] :
                        f \in RawSeries(FredCells), g \in RawSeries(CloseCells)}
    /\ RowCount(provider["M2SL"]) + RowCount(provider["GC=F"]) <= MaxRows
    /\ InitRun
    /\ NoCall

analytics == <<denominate_in, denom_df, denom_series, norm_mode, plot_df>>
(* 'is None' in place of the truth test: a multiselect is never None *)
NoSelectionIsNone(refs, assets) == FALSE

(* line 191: not selected_refs and not selected_assets *)
NoSelection(refs, assets) == refs = <<>> /\ assets = <<>>

(* lines 121-135: the two multiselects are read *)
Sidebar(refs, assets) ==
    /\ pc = "idle"
    /\ selected_refs' = refs
    /\ selected_assets' = assets
    /\ pc' = "guard"
    /\ UNCHANGED <<provider, cache, now, time_range, start_date, end_date,
                   combined_df, all_dfs, requests, calls, errors, report>>
    /\ UNCHANGED analytics
    /\ UNCHANGED <<view, call>>

(* line 191-192: nothing selected, the run asks for a selection and ends *)
NothingSelected ==
    /\ pc = "guard"
    /\ NoSelection(selected_refs, selected_assets)
    /\ report' = "select"
    /\ pc' = "done"
    /\ UNCHANGED <<provider, cache, now, selected_refs, selected_assets, time_range,
                   start_date, end_date, combined_df, all_dfs, requests, calls, errors>>
    /\ UNCHANGED analytics
    /\ UNCHANGED <<view, call>>

(* line 202: combined_df = get_combined_data(selected_refs, selected_assets, "max") *)
FetchData(failed) ==
    /\ pc = "guard"
    /\ ~NoSelection(selected_refs, selected_assets)
    /\ \E r \in {get_combined_data(selected_refs, selected_assets, "max", failed, cache, now)} :
           /\ combined_df' = r.ret
           /\ cache' = r.cache
           /\ requests' = requests \o r.requests
           /\ all_dfs' = r.all_dfs
           /\ calls' = Append(calls, CacheKey(selected_refs, selected_assets, "max"))
           /\ errors' = errors \cup r.errors
    /\ pc' = "fetched"
    /\ UNCHANGED <<provider, now, selected_refs, selected_assets, time_range,
                   start_date, end_date, report>>
    /\ UNCHANGED analytics
    /\ UNCHANGED <<view, call>>

(* df.loc[lo:hi] on a sorted date index: both ends inclusive *)
loc(df, lo, hi) ==
    Rows(df, Filter(df.index, {d \in Range(df.index) : lo <= d /\ d <= hi}))

(* the window cut out of each fetched series before they are merged *)
SliceBeforeAlign(df, range, start, end) ==
    IF empty(df) THEN df
    ELSE LET last == df.index[Len(df.index)]
             lo == IF range \in DOMAIN Lookback THEN last - Lookback[range] * YearDays
                   ELSE IF range = "Custom" THEN start ELSE 0
             hi == IF range = "Custom" THEN end ELSE last
         IN  Combine([j \in DOMAIN all_dfs |-> loc(all_dfs[j], lo, hi)])

(* lines 205-218: the Timeline slice of a non-empty table *)
Slice(df, range, start, end) ==
    IF empty(df) THEN df
    ELSE LET last == df.index[Len(df.index)]
         IN  IF range \in DOMAIN Lookback
             THEN loc(df, last - Lookback[range] * YearDays, last)
             ELSE IF range = "Custom" THEN loc(df, start, end)
             ELSE df

(* lines 137-149 and 205-221: the Timeline widgets are read, the table is  *)
(* sliced, and an empty table ends the run with the no-data error          *)
SliceTimeline(range, start, end) ==
    /\ pc = "fetched"
    /\ time_range' = range
    /\ start_date' = start
    /\ end_date' = end
    /\ combined_df' = Slice(combined_df, range, start, end)
    /\ IF empty(combined_df')
       THEN report' = "no_data" /\ pc' = "done"
       ELSE report' = report /\ pc' = "sliced"
    /\ UNCHANGED <<provider, cache, now, selected_refs, selected_assets,
                   all_dfs, requests, calls, errors>>
    /\ UNCHANGED analytics
    /\ UNCHANGED <<view, call>>

(* df[name]: one column as a Series *)
column(df, name) ==
    MkDF(df.index, <<name>>, [c \in {name}, d \in Range(df.index) |-> df.data[name][d]])

(* series.reindex(index): the rows of the new index, missing where the     *)
(* series has no row of that label                                         *)
reindex(series, index) ==
    MkDF(index, series.columns,
         [c \in Range(series.columns), d \in Range(index) |->
             IF d \in Range(series.index) THEN series.data[c][d] ELSE NaN])

(* df.divide(series) with the default axis: the dates are matched against *)
(* the column names, nothing matches and every cell is missing            *)
divide_columns(df, series) ==
    MkDF(df.index, df.columns,
         [c \in Range(df.columns), d \in Range(df.index) |-> NaN])

(* df.divide(series, axis=0): every column divided row by row *)
divide(df, series) ==
    MkDF(df.index, df.columns,
         [c \in Range(df.columns), d \in Range(df.index) |->
             FDiv(df.data[c][d], series.data[series.columns[1]][d])])

DenomOptions == {"USD", "Gold", "M2 Money Supply"}

(* lines 223-253: Real Return; failed names the denominator when its       *)
(* background fetch raises                                                 *)
Denominate(denom, failed) ==
    /\ pc = "sliced"
    /\ denominate_in' = denom
    /\ LET inTable == denom \in Range(combined_df.columns)
           fetch == denom # "USD" /\ ~inTable
                      /\ denom \in DOMAIN FRED_SERIES \cup DOMAIN ASSET_TICKERS
           key == IF denom \in DOMAIN FRED_SERIES
                  THEN CacheKey(<<denom>>, <<>>, "max")
                  ELSE CacheKey(<<>>, <<denom>>, "max")
       IN  /\ fetch \/ failed = {}
           /\ IF fetch
              THEN \E r \in {get_combined_data(key[1], key[2], key[3], failed, cache, now)} :
                      /\ cache' = r.cache
                      /\ requests' = requests \o r.requests
                      /\ calls' = Append(calls, key)
                      /\ errors' = errors \cup r.errors
                      /\ denom_df' = r.ret
              ELSE /\ UNCHANGED <<cache, requests, calls, errors>>
                   /\ denom_df' = EmptyDF
           /\ denom_series' =
                  IF denom = "USD" THEN NoSeries
                  ELSE IF inTable
                       THEN ffill(reindex(column(combined_df, denom), combined_df.index))
                  ELSE IF ~empty(denom_df')
                       THEN ffill(reindex(column(denom_df', denom), combined_df.index))
                  ELSE NoSeries
           /\ combined_df' = IF denom_series' # NoSeries
                             THEN divide(combined_df, denom_series')
                             ELSE combined_df
    /\ pc' = "denominated"
    \* the Timeline selection is not read again after line 218: it is let go
    /\ time_range' = "10y" /\ start_date' = 0 /\ end_date' = 0
    /\ UNCHANGED <<provider, now, selected_refs, selected_assets, all_dfs, report,
                   norm_mode, plot_df>>
    /\ UNCHANGED <<view, call>>

(* x.iloc[0]: the first row, missing or not *)
FirstRow(df, c) == df.data[c][df.index[1]]

(* the first non-missing value of a column, or 1 when it has none:         *)
(* x.dropna().iloc[0] if not x.dropna().empty else 1                       *)
FirstValid(df, c) ==
    LET valid == Filter(df.index, {d \in Range(df.index) : notna(df.data[c][d])})
    IN  IF valid = <<>> THEN FromInt(1) ELSE df.data[c][valid[1]]

NormModes == {"Raw Data", "Index=100", "% Change", "Log Scale"}

(* df.pct_change(): each column is forward-filled (the default              *)
(* fill_method='pad'), then row i is padded[i] / padded[i - 1] - 1 and the   *)
(* first row is missing                                                     *)
pct_change(df) ==
    MkDF(df.index, df.columns,
         [c \in Range(df.columns), d \in Range(df.index) |->
             LET i == Pos(df.index, d)
             IN  IF i = 1 THEN NaN
                 ELSE FSub(FDiv(FfillAt(df.data[c], df.index, i),
                                FfillAt(df.data[c], df.index, i - 1)),
                           FromInt(1))])

(* normalize_data *)
normalize_data(df, mode) ==
    IF empty(df) THEN df
    ELSE IF mode = "Index=100"
    THEN MkDF(df.index, df.columns,
              [c \in Range(df.columns), d \in Range(df.index) |->
                  FMul(FDiv(df.data[c][d], FirstValid(df, c)), FromInt(100))])
    ELSE IF mode = "% Change"
    THEN MkDF(df.index, df.columns,
              [c \in Range(df.columns), d \in Range(df.index) |->
                  FMul(pct_change(df).data[c][d], FromInt(100))])
    ELSE IF mode = "Log Scale"
    THEN MkDF(df.index, df.columns,
              [c \in Range(df.columns), d \in Range(df.index) |->
                  FLog(df.data[c][d])])
    ELSE df

(* the months of the slider count 30 rows each: shift(shift_months * 30) *)
RowsPerMonth == 30

(* df[cols].shift(n) written back into df: the value of row i of a shifted *)
(* column is the value of row i - n, missing when there is no such row      *)
shift(df, cols, n) ==
    MkDF(df.index, df.columns,
         [c \in Range(df.columns), d \in Range(df.index) |->
             IF c \notin cols THEN df.data[c][d]
             ELSE LET j == Pos(df.index, d) - n
                  IN  IF j \in DOMAIN df.index THEN df.data[c][df.index[j]] ELSE NaN])

(* no column is exempt: focus_col is shifted with the others *)
ShiftAll(df, focus_col, shift_months) ==
    shift(df, Range(df.columns), shift_months * RowsPerMonth)

(* a focus_col that is not a column falls back on the first column, which  *)
(* is then held fixed                                                      *)
ShiftOthersOrFirst(df, focus_col, shift_months) ==
    shift(df, Range(df.columns)
                \ {IF focus_col \in Range(df.columns) THEN focus_col ELSE df.columns[1]},
          shift_months * RowsPerMonth)

(* lines 165-168: the copy with every column but focus_col shifted *)
ShiftOthers(df, focus_col, shift_months) ==
    shift(df, Range(df.columns) \ {focus_col}, shift_months * RowsPerMonth)

(* the early return of lines 162-163 is left out: a shift of 0 goes        *)
(* through the shift and the dropna as well                                *)
apply_lead_lag_always_drops(df, focus_col, shift_months) ==
    [ret |-> dropna_all(ShiftOthers(df, focus_col, shift_months)), df |-> df]

(* the copy of line 165 is left out: line 168 writes into the caller's     *)
(* table                                                                   *)
apply_lead_lag_in_place(df, focus_col, shift_months) ==
    IF shift_months = 0 THEN [ret |-> df, df |-> df]
    ELSE [ret |-> dropna_all(ShiftOthers(df, focus_col, shift_months)),
          df |-> ShiftOthers(df, focus_col, shift_months)]

(* apply_lead_lag: ret is the returned table, df the caller's table after  *)
(* the call (line 168 writes into the copy made on line 165)               *)
apply_lead_lag(df, focus_col, shift_months) ==
    IF shift_months = 0 THEN [ret |-> df, df |-> df]
    ELSE [ret |-> dropna_all(ShiftOthers(df, focus_col, shift_months)),
          df |-> df]

(* weight / total_weight of two Python ints: the correctly rounded ratio *)
IntDiv(n, d) == IF n = 0 THEN Zero ELSE RoundQ(1, n, d, 0)

RECURSIVE SumWeights(_)
SumWeights(weights_dict) ==
    IF weights_dict = <<>> THEN 0
    ELSE Head(weights_dict)[2] + SumWeights(Tail(weights_dict))

(* pd.Series(0.0, index=df.index) *)
ZeroSeries(df) ==
    MkDF(df.index, <<"result">>, [c \in {"result"}, d \in Range(df.index) |-> Zero])

(* the loop of lines 181-187 over the first n items of the dict, in        *)
(* insertion order                                                         *)
RECURSIVE PortfolioLoop(_, _, _, _)
PortfolioLoop(df, weights_dict, total_weight, n) ==
    IF n = 0 THEN ZeroSeries(df)
    ELSE LET result == PortfolioLoop(df, weights_dict, total_weight, n - 1)
             asset == weights_dict[n][1]
             weight == weights_dict[n][2]
         IN  IF asset \notin Range(df.columns) THEN result
             ELSE LET first_val == df.data[asset][df.index[1]]
                  IN  IF IsZero(first_val) THEN result
                      ELSE MkDF(df.index, <<"result">>,
                             [c \in {"result"}, d \in Range(df.index) |->
                                FAdd(result.data["result"][d],
                                     FMul(FMul(FDiv(df.data[asset][d], first_val),
                                               FromInt(100)),
                                          IntDiv(weight, total_weight)))])

(* calculate_portfolio; weights_dict is the dict as the sequence of its    *)
(* (asset, weight) items                                                   *)
calculate_portfolio(df, weights_dict) ==
    IF weights_dict = <<>> THEN ZeroSeries(df)
    ELSE IF SumWeights(weights_dict) = 0 THEN ZeroSeries(df)
    ELSE PortfolioLoop(df, weights_dict, SumWeights(weights_dict), Len(weights_dict))

(* the values of rows i - window + 1 .. i of a column *)
Window(col, index, i, window) == [j \in 1..window |-> col[index[i - window + j]]]

(* series.rolling(window=window).mean() / .std() at row i: missing until   *)
(* window observations are there and none of them is missing; the value is *)
(* kept as a term over the window                                          *)
Rolling(stat, col, index, i, window) ==
    IF i < window THEN NaN
    ELSE IF \E j \in 1..window : IsNaN(col[index[i - window + j]]) THEN NaN
    ELSE [k |-> stat, of |-> Window(col, index, i, window)]

RECURSIVE IndicatorColumns(_)
IndicatorColumns(columns) ==
    IF columns = <<>> THEN <<>>
    ELSE <<<<Head(columns), "SMA">>, <<Head(columns), "BB_Upper">>,
           <<Head(columns), "BB_Lower">>>> \o IndicatorColumns(Tail(columns))

(* calculate_technical_indicators: three columns per input column *)
calculate_technical_indicators(df, window) ==
    MkDF(df.index, IndicatorColumns(df.columns),
         [c \in Range(IndicatorColumns(df.columns)), d \in Range(df.index) |->
             LET series == [x \in Range(df.index) |-> to_numeric(df.data[c[1]][x])]
                 i == Pos(df.index, d)
                 sma == Rolling("mean", series, df.index, i, window)
                 std == Rolling("std", series, df.index, i, window)
             IN  IF c[2] = "SMA" THEN sma
                 ELSE IF IsNaN(sma) \/ IsNaN(std) THEN NaN
                 ELSE [k |-> c[2], of |-> sma.of]])

(* the frame without the dropna(): every row is a pair *)
AllPairs(x_series, y_series) ==
    [j \in DOMAIN x_series.index |->
        <<x_series.data[x_series.columns[1]][x_series.index[j]],
          y_series.data[y_series.columns[1]][x_series.index[j]]>>]

(* the rows of the frame {'x': x_series, 'y': y_series} left by dropna() *)
ValidPairs(x_series, y_series) ==
    LET index == x_series.index
        x == x_series.data[x_series.columns[1]]
        y == y_series.data[y_series.columns[1]]
        kept == Filter(index, {d \in Range(index) : notna(x[d]) /\ notna(y[d])})
    IN  [j \in DOMAIN kept |-> <<x[kept[j]], y[kept[j]]>>]

(* calculate_regression_stats on two series of one index: the neutral      *)
(* result below two pairs; LinearRegression.fit refuses an infinite value   *)
(* with a ValueError; else the fit is kept as a term over the pairs         *)
calculate_regression_stats(x_series, y_series) ==
    LET df == ValidPairs(x_series, y_series)
    IN  IF Len(df) < 2
        THEN [outcome |-> "returned", fitted |-> FALSE, beta |-> Zero, r_squared |-> Zero]
        ELSE IF \E j \in DOMAIN df : IsInf(df[j][1]) \/ IsInf(df[j][2])
        THEN [outcome |-> "ValueError", fitted |-> FALSE, beta |-> NaN, r_squared |-> NaN]
        ELSE [outcome |-> "returned", fitted |-> TRUE,
              beta |-> [k |-> "coef", of |-> df],
              r_squared |-> [k |-> "score", of |-> df]]

(* x.rolling(window=window).corr(y) on two series of one index: missing    *)
(* until window pairs are there, when a pair of the window has a missing   *)
(* or infinite member, and when x or y is constant over the window (0/0);  *)
(* else the correlation is kept as a term over the window's pairs          *)
rolling_corr(x_series, y_series, window) ==
    LET index == x_series.index
        x == x_series.data[x_series.columns[1]]
        y == y_series.data[y_series.columns[1]]
    IN  MkDF(index, <<"corr">>,
             [c \in {"corr"}, d \in Range(index) |->
                 LET i == Pos(index, d)
                 IN  IF i < window THEN NaN
                     ELSE LET xs == Window(x, index, i, window)
                              ys == Window(y, index, i, window)
                          IN  IF \E j \in 1..window : ~IsFin(xs[j]) \/ ~IsFin(ys[j])
                              THEN NaN
                              ELSE IF (\A j \in 1..window : xs[j] = xs[1])
                                       \/ (\A j \in 1..window : ys[j] = ys[1])
                              THEN NaN
                              ELSE [k |-> "corr", x |-> xs, y |-> ys]])

(* combined_df[name] = series: the column is appended *)
with_column(df, name, series) ==
    MkDF(df.index, Append(df.columns, name),
         [c \in Range(df.columns) \cup {name}, d \in Range(df.index) |->
             IF c = name THEN series.data[series.columns[1]][d] ELSE df.data[c][d]])

(* lines 153-157: no entry without the checkbox, else one slider per       *)
(* selected asset                                                          *)
WeightValues == {0, 100}
WeightChoices(assets) ==
    {<<>>} \cup {[j \in DOMAIN assets |-> <<assets[j], w[j]>>] :
                    w \in [DOMAIN assets -> WeightValues]}

LeadLagChoices == {-1, 0, 1}
WindowChoices == {30, 31}

(* lines 442-450 of the Time Series view: the rolling correlation of the   *)
(* first reference against the first asset, read from combined_df          *)
RollingCorrelation(df, refs, assets, window) ==
    IF refs = <<>> \/ assets = <<>> THEN NoSeries
    ELSE IF refs[1] \notin Range(df.columns) \/ assets[1] \notin Range(df.columns)
    THEN NoSeries
    ELSE rolling_corr(column(pct_change(df), refs[1]),
                      column(pct_change(df), assets[1]), window)

(* lines 256-273 and 442-450: the portfolio column, the lead/lag shift,    *)
(* the normalization and the rolling correlation of the Time Series view   *)
View(weights, months, mode, window) ==
    /\ pc = "denominated"
    /\ portfolio_weights' = weights
    /\ combined_df' = IF weights # <<>>
                      THEN with_column(combined_df, "Custom Portfolio",
                                       calculate_portfolio(combined_df, weights))
                      ELSE combined_df
    /\ lead_lag_months' = months
    /\ shifted_df' = apply_lead_lag(combined_df',
                                    IF selected_refs # <<>> THEN selected_refs[1]
                                    ELSE combined_df'.columns[1],
                                    -months).ret
    /\ norm_mode' = mode
    /\ plot_df' = normalize_data(shifted_df', mode)
    /\ corr_window' = window
    /\ corr_series' = RollingCorrelation(combined_df', selected_refs, selected_assets,
                                         window)
    /\ pc' = "normalized"
    /\ UNCHANGED <<provider, cache, now, selected_refs, selected_assets, time_range,
                   start_date, end_date, all_dfs, requests, calls,
                   errors, report, denominate_in, denom_df, denom_series>>
    /\ UNCHANGED call

(* the run with the sidebar's defaults: no portfolio, no shift, the        *)
(* default window; line 273: plot_df = normalize_data(shifted_df, norm_mode) *)
Normalize(mode) == View(<<>>, 0, mode, 180)

Selected == Range(selected_refs) \cup Range(selected_assets)

Next ==
    \/ \E refs \in RefChoices, assets \in AssetChoices : Sidebar(refs, assets)
    \/ NothingSelected
    \/ \E failed \in SUBSET Selected : FetchData(failed)
    \/ \E range \in TimeRanges \ {"Custom"} : SliceTimeline(range, 0, 0)
    \/ \E start \in Dates, end \in Dates : SliceTimeline("Custom", start, end)
    \/ \E denom \in DenomOptions : \E failed \in SUBSET {denom} : Denominate(denom, failed)
    \/ \E mode \in NormModes : Normalize(mode)

Spec == Init /\ [][Next]_vars

(* time passes *)
Tick ==
    /\ now < MaxTicks * TickSeconds
    /\ now' = now + TickSeconds
    /\ UNCHANGED <<provider, cache, pc, selected_refs, selected_assets, time_range,
                   start_date, end_date, combined_df, all_dfs, requests, calls,
                   errors, report>>
    /\ UNCHANGED analytics
    /\ UNCHANGED <<view, call>>

(* Streamlit reruns the script from the top: the script's variables start  *)
(* afresh, the cache outlives the run                                      *)
Rerun ==
    /\ pc \in {"done", "normalized"}
    /\ pc' = "idle"
    /\ selected_refs' = <<>>
    /\ selected_assets' = <<>>
    /\ time_range' = "10y"
    /\ start_date' = 0
    /\ end_date' = 0
    /\ combined_df' = EmptyDF
    /\ all_dfs' = <<>>
    /\ requests' = <<>>
    /\ calls' = <<>>
    /\ errors' = {}
    /\ report' = "none"
    /\ denominate_in' = "USD"
    /\ denom_df' = EmptyDF
    /\ denom_series' = NoSeries
    /\ norm_mode' = "Index=100"
    /\ plot_df' = EmptyDF
    /\ portfolio_weights' = <<>>
    /\ lead_lag_months' = 0
    /\ shifted_df' = EmptyDF
    /\ corr_window' = 180
    /\ corr_series' = NoSeries
    /\ UNCHANGED <<provider, cache, now>>
    /\ UNCHANGED call

(* one upstream state: M2 observed on the first and last date, Gold on the *)
(* last two                                                                *)
SampleProvider ==
    [id \in {"M2SL", "GC=F"} |->
        IF id = "M2SL"
        THEN [d \in {YearDays, MaxDate * YearDays} |->
                 IF d = YearDays THEN FromInt(7) ELSE FromInt(11)]
        ELSE [d \in {(MaxDate - 1) * YearDays, MaxDate * YearDays} |->
                 IF d = MaxDate * YearDays THEN FromInt(3) ELSE FromInt(0)]]

InitCache == provider = SampleProvider /\ InitRun /\ NoCall

NextCache == Next \/ Tick \/ Rerun

(* repeated runs of the script over time against one upstream state *)
SpecCache == InitCache /\ [][NextCache]_vars

----------------------------------------------------------------------------
(* A history longer than one month of rows *)

(* the i-th trading day: five days on, two days off *)
BusinessDay(i) == i + 2 * ((i - 1) \div 5)

LongBase == MaxDate * YearDays - 35
LongRows == RowsPerMonth + MaxExtra

(* one upstream state: Gold closes on LongRows trading days, M2 observed   *)
(* on the first of them and on a later day without trading                 *)
LongProvider ==
    [id \in {"M2SL", "GC=F"} |->
        IF id = "M2SL"
        THEN [d \in {LongBase + 1, LongBase + 28} |->
                 IF d = LongBase + 1 THEN FromInt(7) ELSE FromInt(11)]
        ELSE [d \in {LongBase + BusinessDay(i) : i \in 1..LongRows} |->
                 LET i == CHOOSE j \in 1..LongRows : d = LongBase + BusinessDay(j)
                 IN  FromInt(3 + ((i * i) % 5))]]

InitLong == provider = LongProvider /\ InitRun /\ NoCall

NextLong ==
    \/ \E refs \in RefChoices, assets \in AssetChoices : Sidebar(refs, assets)
    \/ NothingSelected
    \/ \E failed \in SUBSET Selected : FetchData(failed)
    \/ \E range \in TimeRanges \ {"Custom"} : SliceTimeline(range, 0, 0)
    \/ \E start \in Dates, end \in Dates : SliceTimeline("Custom", start, end)
    \/ \E denom \in DenomOptions : \E failed \in SUBSET {denom} : Denominate(denom, failed)
    \/ \E weights \in WeightChoices(selected_assets), months \in LeadLagChoices :
          \E mode \in NormModes, window \in WindowChoices :
             View(weights, months, mode, window)

(* script runs over the long history, with every widget of the view in use *)
SpecLong == InitLong /\ [][NextLong]_vars

----------------------------------------------------------------------------
(* The transformers called directly on a table *)

TableCells == {NaN, FromInt(0), FromInt(3), FromInt(-6)}
TableColumns == {<<"Gold">>, <<"M2 Money Supply", "Gold">>}

(* the tables of at most MaxLen rows *)
SmallTables ==
    UNION {UNION {{MkDF(index, columns, cells) :
                      cells \in [Range(columns) \X Range(index) -> TableCells]} :
                  columns \in TableColumns} :
           index \in {SortedSeq({YearDays * i : i \in 1..n}) : n \in 1..MaxLen}}

(* the tables of LongRows trading days whose first and last month-apart    *)
(* rows are drawn                                                          *)
LongTables ==
    {MkDF([i \in 1..LongRows |-> LongBase + BusinessDay(i)],
          <<"M2 Money Supply", "Gold">>,
          [c \in {"M2 Money Supply", "Gold"},
           d \in {LongBase + BusinessDay(i) : i \in 1..LongRows} |->
              LET i == CHOOSE j \in 1..LongRows : d = LongBase + BusinessDay(j)
              IN  IF c = "Gold"
                  THEN (IF i = 1 THEN head ELSE IF i = RowsPerMonth + 1 THEN tail
                        ELSE FromInt(3 + ((i * i) % 5)))
                  ELSE (IF i = 1 THEN first ELSE IF i <= 20 THEN FromInt(7)
                        ELSE FromInt(11))]) :
        head \in TableCells, tail \in TableCells, first \in {NaN, FromInt(7)}}

Tables == SmallTables \cup LongTables

InitCall ==
    /\ provider = SampleProvider
    /\ InitRun
    /\ table \in Tables
    /\ fn = "none"
    /\ args = <<>>
    /\ returned = EmptyDF

script == <<provider, cache, now, pc, selected_refs, selected_assets,
            time_range, start_date, end_date, combined_df, all_dfs, requests,
            calls, errors, report, denominate_in, denom_df, denom_series, norm_mode,
            plot_df, portfolio_weights, lead_lag_months, shifted_df, corr_window,
            corr_series>>

CallNormalize(mode) ==
    /\ fn = "none"
    /\ fn' = "normalize_data"
    /\ args' = <<mode>>
    /\ returned' = normalize_data(table, mode)
    /\ table' = table
    /\ UNCHANGED script

FocusChoices == {"M2 Money Supply", "Gold", "CPI (Inflation)"}

CallLeadLag(focus_col, shift_months) ==
    /\ fn = "none"
    /\ fn' = "apply_lead_lag"
    /\ args' = <<focus_col, shift_months>>
    /\ \E r \in {apply_lead_lag(table, focus_col, shift_months)} :
          /\ returned' = r.ret
          /\ table' = r.df
    /\ UNCHANGED script

DictChoices ==
    {<<>>} \cup {<<<<"Gold", w>>>> : w \in WeightValues}
           \cup {<<<<"M2 Money Supply", v>>, <<"Gold", w>>>> :
                    v \in WeightValues, w \in WeightValues}

CallPortfolio(weights_dict) ==
    /\ fn = "none"
    /\ fn' = "calculate_portfolio"
    /\ args' = <<weights_dict>>
    /\ returned' = calculate_portfolio(table, weights_dict)
    /\ table' = table
    /\ UNCHANGED script

IndicatorWindows == {2, 200}

CallIndicators(window) ==
    /\ fn = "none"
    /\ fn' = "calculate_technical_indicators"
    /\ args' = <<window>>
    /\ returned' = calculate_technical_indicators(table, window)
    /\ table' = table
    /\ UNCHANGED script

CallRegression(x, y) ==
    /\ fn = "none"
    /\ x \in Range(table.columns)
    /\ y \in Range(table.columns)
    /\ fn' = "calculate_regression_stats"
    /\ args' = <<x, y>>
    /\ returned' = calculate_regression_stats(column(table, x), column(table, y))
    /\ table' = table
    /\ UNCHANGED script

NextCall ==
    \/ \E mode \in NormModes : CallNormalize(mode)
    \/ \E focus_col \in FocusChoices, shift_months \in LeadLagChoices :
          CallLeadLag(focus_col, shift_months)
    \/ \E weights_dict \in DictChoices : CallPortfolio(weights_dict)
    \/ \E window \in IndicatorWindows : CallIndicators(window)
    \/ \E x \in FocusChoices, y \in FocusChoices : CallRegression(x, y)

(* one call of one transformer on one table *)
SpecCall == InitCall /\ [][NextCall]_vars

----------------------------------------------------------------------------
(* What the claims speak of, stated on the fetched series themselves *)

InputSeries == Range(all_dfs)
InputDates == UNION {Range(df.index) : df \in InputSeries}
InputNames == {df.columns[1] : df \in InputSeries}
SeriesNamed(c) == CHOOSE df \in InputSeries : df.columns[1] = c

(* the dates at or before D on which a one-column table has an observation *)
ObsDates(df, D) ==
    {d \in Range(df.index) : d <= D /\ notna(df.data[df.columns[1]][d])}

(* the most recent non-missing observation at or before D, else missing *)
LastObs(df, D) ==
    IF ObsDates(df, D) = {} THEN NaN
    ELSE df.data[df.columns[1]][Max(ObsDates(df, D))]

Increasing(index) ==
    \A i \in DOMAIN index, j \in DOMAIN index : i < j => index[i] < index[j]

(* the input dates on which at least one series has started *)
StartedDates == {D \in InputDates : \E df \in InputSeries : ObsDates(df, D) # {}}

CellsAreLastObs(df) ==
    \A c \in Range(df.columns), D \in Range(df.index) :
        df.data[c][D] = LastObs(SeriesNamed(c), D)

Returned == pc = "fetched" /\ all_dfs # <<>>

(* C1, as claimed: the table returned by get_combined_data has the sorted  *)
(* union of all input dates as its date axis, and every cell is that same  *)
(* series' most recent non-missing observation at or before its date, or   *)
(* missing if there is none.                                               *)
C1_AxisIsUnionOfInputDates ==
    Returned =>
        /\ Increasing(combined_df.index)
        /\ Range(combined_df.index) = InputDates
        /\ Range(combined_df.columns) = InputNames
        /\ CellsAreLastObs(combined_df)

(* C1, amended: the date axis is the sorted union of the input dates less  *)
(* the dates on which no series has an observation at or before; the cells *)
(* are as claimed.                                                         *)
C1_AlignedForwardFilled ==
    Returned =>
        /\ Increasing(combined_df.index)
        /\ Range(combined_df.index) = StartedDates
        /\ Range(combined_df.columns) = InputNames
        /\ CellsAreLastObs(combined_df)

(* C1 witness: two series are merged and a cell is forward-filled on a date *)
(* where the other series has an observation of its own of another value.  *)
C1_Witness ==
    /\ Returned
    /\ Len(all_dfs) = 2
    /\ \E D \in Range(combined_df.index), c \in InputNames, o \in InputNames :
          /\ c # o
          /\ D \notin Range(SeriesNamed(c).index)
          /\ notna(combined_df.data[c][D])
          /\ D \in ObsDates(SeriesNamed(o), D)
          /\ combined_df.data[o][D] # combined_df.data[c][D]

(* C2: in the table returned by get_combined_data no row has all columns   *)
(* missing, no input date on which some series has a forward-filled value  *)
(* is removed, the table starts at the earliest observation of any series, *)
(* and the row count is the number of input dates that survive the drop.   *)
C2_OnlyAllMissingRowsDropped ==
    Returned =>
        /\ \A D \in Range(combined_df.index) :
              \E c \in Range(combined_df.columns) : notna(combined_df.data[c][D])
        /\ \A D \in InputDates :
              (\E df \in InputSeries : notna(LastObs(df, D)))
                  => D \in Range(combined_df.index)
        /\ StartedDates # {} => combined_df.index[1] = Min(StartedDates)
        /\ Len(combined_df.index) = Cardinality(StartedDates)

(* C2 witness: one series starts later than the other and the table keeps  *)
(* the rows before the later start, where that series is missing.          *)
C2_Witness ==
    /\ Returned
    /\ Len(all_dfs) = 2
    /\ \E c \in InputNames :
          /\ IsNaN(combined_df.data[c][combined_df.index[1]])
          /\ \E D \in Range(combined_df.index) : notna(combined_df.data[c][D])

(* the window of the Timeline selection, anchored to the last aligned date *)
InWindow(D) ==
    IF time_range \in {"1y", "5y", "10y", "20y"}
    THEN D >= Max(StartedDates)
              - YearDays * (CASE time_range = "1y" -> 1 [] time_range = "5y" -> 5
                              [] time_range = "10y" -> 10 [] time_range = "20y" -> 20)
    ELSE IF time_range = "Custom" THEN start_date <= D /\ D <= end_date
    ELSE TRUE

(* C3: the window is applied after the full history is aligned and filled: *)
(* the windowed table is the full-history aligned table restricted to the  *)
(* window, so a cell on the window's first dates carries the last          *)
(* observation made before the window.                                     *)
C3_WindowAfterAlignment ==
    ((pc = "sliced" \/ report = "no_data") /\ all_dfs # <<>>) =>
        /\ Increasing(combined_df.index)
        /\ Range(combined_df.index) = {D \in StartedDates : InWindow(D)}
        /\ CellsAreLastObs(combined_df)

(* C3 witness: the first row of a windowed table holds a value observed    *)
(* before the window.                                                      *)
C3_Witness ==
    /\ pc = "sliced"
    /\ all_dfs # <<>>
    /\ \E c \in Range(combined_df.columns) :
          LET D == combined_df.index[1]
          IN  /\ notna(combined_df.data[c][D])
              /\ ObsDates(SeriesNamed(c), D) # {}
              /\ ~InWindow(Max(ObsDates(SeriesNamed(c), D)))

(* whether the upstream source holds usable rows for a catalog name *)
HasData(name) ==
    IF name \in DOMAIN FRED_SERIES
    THEN \E d \in DOMAIN provider[FRED_SERIES[name]] :
            provider[FRED_SERIES[name]][d] # Dot
    ELSE DOMAIN provider[ASSET_TICKERS[name]] # {}

BodyRan == pc = "fetched" /\ requests # <<>>

(* C4: a failing fetch does not abort get_combined_data: the failing       *)
(* series contributes no column, every other requested series whose fetch  *)
(* succeeded with data has its column, and the result is the empty table   *)
(* only when no requested series produced data.                            *)
C4_FailureIsolatedPerSeries ==
    BodyRan =>
        /\ \A n \in Selected :
              /\ n \in errors => n \notin Range(combined_df.columns)
              /\ (n \notin errors /\ HasData(n)) => n \in Range(combined_df.columns)
        /\ combined_df = EmptyDF <=> ~\E n \in Selected : n \notin errors /\ HasData(n)

(* C4 witness: one of two requested series failed and the other is there.  *)
C4_Witness ==
    /\ BodyRan
    /\ Cardinality(Selected) = 2
    /\ Cardinality(errors) = 1
    /\ Len(combined_df.columns) = 1
    /\ Len(combined_df.index) > 0

(* C5: with both selections empty the run reports that there is nothing to *)
(* show and neither get_combined_data nor any provider request is invoked. *)
C5_EmptySelectionFetchesNothing ==
    (pc \notin {"idle", "guard"} /\ selected_refs = <<>> /\ selected_assets = <<>>) =>
        /\ pc = "done"
        /\ report = "select"
        /\ calls = <<>>
        /\ requests = <<>>

(* C5 witness: a run with nothing selected has ended.                      *)
C5_Witness ==
    pc = "done" /\ selected_refs = <<>> /\ selected_assets = <<>> /\ report = "select"

MainKey == CacheKey(selected_refs, selected_assets, "max")

(* C6: a call with the arguments of an entry stored less than 3600 seconds *)
(* ago issues no provider request and returns the stored table; a call     *)
(* after the entry's expiry fetches again and replaces the entry.          *)
C6_CacheServedForOneHour ==
    [][(pc = "guard" /\ pc' = "fetched" /\ MainKey \in DOMAIN cache) =>
          IF now - cache[MainKey].stored < 3600
          THEN /\ requests' = requests
               /\ combined_df' = cache[MainKey].value
               /\ cache' = cache
          ELSE /\ Len(requests') > Len(requests)
               /\ cache'[MainKey].stored = now
               /\ cache'[MainKey].value = combined_df']_vars

(* C6 witness: a call was served from an entry stored earlier, without a   *)
(* provider request.                                                       *)
C6_Witness ==
    /\ pc = "fetched"
    /\ calls # <<>>
    /\ requests = <<>>
    /\ MainKey \in DOMAIN cache
    /\ cache[MainKey].stored < now
    /\ ~empty(combined_df)

Divisor(D) == denom_series.data[denom_series.columns[1]][D]

Denominated == pc = "denominated" /\ denom_series # NoSeries

(* C7: at every date where the denominator is zero or missing every        *)
(* re-denominated cell is missing, and no infinite value is produced.      *)
C7_ZeroDenominatorGivesMissing ==
    Denominated =>
        \A D \in Range(combined_df.index), c \in Range(combined_df.columns) :
            /\ (IsZero(Divisor(D)) \/ IsNaN(Divisor(D))) => IsNaN(combined_df.data[c][D])
            /\ ~IsInf(combined_df.data[c][D])

FetchedSeparately == Denominated /\ ~empty(denom_df)

(* C8: a separately fetched denominator is forward-filled onto the table's *)
(* date axis: the divisor at each table date D is the denominator's most   *)
(* recent observation at or before D, also when that observation's date is *)
(* not a date of the table or lies before the table's window.              *)
C8_DenominatorForwardFilledOntoAxis ==
    FetchedSeparately =>
        \A D \in Range(combined_df.index) : Divisor(D) = LastObs(denom_df, D)

(* the exact integer n with value = n * 2^e0, for e0 at most the exponent  *)
Scaled(v, e0) == v.s * v.m * 2^(v.e - e0)

(* |y - x| <= 2^(1 - Precision) * |x| for finite x and y *)
Abs(n) == IF n < 0 THEN -n ELSE n
WithinRounding(y, x) ==
    /\ IsFin(y) /\ IsFin(x)
    /\ LET e0 == IF x.e < y.e THEN x.e ELSE y.e
       IN  Abs(Scaled(y, e0) - Scaled(x, e0)) * 2^(Precision - 1) <= Abs(Scaled(x, e0))

DenominateStep == pc = "sliced" /\ pc' = "denominated" /\ denom_series' # NoSeries

DivisorNext(D) == denom_series'.data[denom_series'.columns[1]][D]

(* C9, as claimed: multiplying the re-denominated table by the same        *)
(* forward-filled denominator reconstructs the original value of every     *)
(* cell at every date where the denominator is non-zero and non-missing.   *)
C9_RemultiplicationReconstructsExactly ==
    [][DenominateStep =>
          \A D \in Range(combined_df.index), c \in Range(combined_df.columns) :
              (IsFin(DivisorNext(D)) /\ ~IsZero(DivisorNext(D))) =>
                  FMul(combined_df'.data[c][D], DivisorNext(D)) = combined_df.data[c][D]]_vars

(* C9, amended: the product reconstructs the original value up to the      *)
(* rounding of the two floating-point operations: a missing cell stays     *)
(* missing, and a present one is within a relative error of                *)
(* 2^(1 - Precision) of the original.                                      *)
C9_RemultiplicationReconstructsWithinRounding ==
    [][DenominateStep =>
          \A D \in Range(combined_df.index), c \in Range(combined_df.columns) :
              (IsFin(DivisorNext(D)) /\ ~IsZero(DivisorNext(D))) =>
                  LET y == FMul(combined_df'.data[c][D], DivisorNext(D))
                      x == combined_df.data[c][D]
                  IN  IF IsNaN(x) THEN IsNaN(y) ELSE WithinRounding(y, x)]_vars

(* C9 witness: a cell other than the denominator's own was divided by a    *)
(* non-zero denominator.                                                   *)
C9_Witness ==
    /\ Denominated
    /\ \E D \in Range(combined_df.index), c \in Range(combined_df.columns) :
          /\ c # denominate_in
          /\ IsFin(Divisor(D)) /\ ~IsZero(Divisor(D))
          /\ IsFin(combined_df.data[c][D]) /\ ~IsZero(combined_df.data[c][D])

ValidDates(df, c) == {D \in Range(df.index) : notna(df.data[c][D])}

Indexed == pc = "normalized" /\ norm_mode = "Index=100"

(* C10, as claimed: Index=100 yields 100 at the first non-missing date of  *)
(* every column that has a non-missing value, whatever that value is, and  *)
(* leaves a column without one all-missing.                                *)
C10_FirstValidIs100 ==
    Indexed =>
        \A c \in Range(shifted_df.columns) :
            IF ValidDates(shifted_df, c) # {}
            THEN plot_df.data[c][Min(ValidDates(shifted_df, c))] = FromInt(100)
            ELSE \A D \in Range(plot_df.index) : IsNaN(plot_df.data[c][D])

(* C10, amended: the cell at the column's first non-missing date is 100    *)
(* when that first value is finite and non-zero, and missing when it is    *)
(* zero or infinite; a column without a non-missing value stays            *)
(* all-missing.                                                            *)
C10_FirstValidIs100UnlessZero ==
    Indexed =>
        \A c \in Range(shifted_df.columns) :
            IF ValidDates(shifted_df, c) # {}
            THEN LET D == Min(ValidDates(shifted_df, c))
                     first == shifted_df.data[c][D]
                 IN  IF IsFin(first) /\ ~IsZero(first)
                     THEN plot_df.data[c][D] = FromInt(100)
                     ELSE IsNaN(plot_df.data[c][D])
            ELSE \A D \in Range(plot_df.index) : IsNaN(plot_df.data[c][D])

(* C10 witness: a column whose first rows are missing and whose first      *)
(* value is not 1 was indexed to 100, next to a column without any value.  *)
C10_Witness ==
    /\ Indexed
    /\ \E c \in Range(shifted_df.columns) :
          /\ ValidDates(shifted_df, c) # {}
          /\ Min(ValidDates(shifted_df, c)) # shifted_df.index[1]
          /\ shifted_df.data[c][Min(ValidDates(shifted_df, c))] # FromInt(1)
          /\ plot_df.data[c][Min(ValidDates(shifted_df, c))] = FromInt(100)

----------------------------------------------------------------------------
(* The lead/lag shift *)

LeadLagCall == fn = "none" /\ fn' = "apply_lead_lag"
LeadLagCalled == fn = "apply_lead_lag"

(* the value of row j of a column, missing when the table has no row j *)
RowValue(df, c, j) == IF j \in DOMAIN df.index THEN df.data[c][df.index[j]] ELSE NaN

AllMissingRow(df, D) == \A c \in Range(df.columns) : IsNaN(df.data[c][D])

(* C11: apply_lead_lag with a shift of 0 months returns the table it was   *)
(* given: the same date axis, the same columns and the same cells, the     *)
(* missing cells and the all-missing rows included, whatever the anchor.   *)
C11_ZeroShiftIsIdentity ==
    [][(LeadLagCall /\ args'[2] = 0) => returned' = table]_vars

(* C11 witness: a table with an all-missing row went through a shift of 0. *)
C11_Witness ==
    /\ LeadLagCalled
    /\ args[2] = 0
    /\ Len(table.index) > 1
    /\ \E D \in Range(table.index) : AllMissingRow(table, D)
    /\ \E D \in Range(table.index) : ~AllMissingRow(table, D)
    /\ returned = table

Anchor == IF selected_refs # <<>> THEN selected_refs[1] ELSE combined_df.columns[1]

Shifted == pc = "normalized" /\ lead_lag_months # 0

(* C12: for a non-zero setting of m months the value of a non-anchor       *)
(* column at date D of the shifted table is the input value of that column *)
(* at the date 30 * m calendar days after D (before D for a negative m),   *)
(* missing if the input has no row of that date: a positive 'reference     *)
(* leads' setting moves the values to earlier dates.                       *)
C12_ShiftIsThirtyDaysPerMonth ==
    Shifted =>
        \A c \in Range(shifted_df.columns) \ {Anchor}, D \in Range(shifted_df.index) :
            LET S == D + 30 * lead_lag_months
            IN  shifted_df.data[c][D] =
                   IF S \in Range(combined_df.index) THEN combined_df.data[c][S] ELSE NaN

(* C13: apply_lead_lag leaves the anchor column untouched: on every date   *)
(* kept in the output the anchor has its input value, the output's dates   *)
(* are dates of the input in their order, and a date is removed only if    *)
(* every column, the anchor included, is missing on it after the shift.    *)
C13_AnchorUntouched ==
    [][(LeadLagCall /\ args'[1] \in Range(table.columns)) =>
          LET focus_col == args'[1]
              n == args'[2] * 30
          IN  /\ returned'.columns = table.columns
              /\ returned'.index = Filter(table.index, Range(returned'.index))
              /\ \A D \in Range(returned'.index) :
                     returned'.data[focus_col][D] = table.data[focus_col][D]
              /\ \A D \in Range(table.index) \ Range(returned'.index) :
                     /\ IsNaN(table.data[focus_col][D])
                     /\ \A c \in Range(table.columns) \ {focus_col} :
                            IsNaN(RowValue(table, c, Pos(table.index, D) - n))]_vars

(* C13 witness: a non-zero shift around an anchor removed a row and kept a *)
(* row where a shifted column has a value next to the anchor's.            *)
C13_Witness ==
    /\ LeadLagCalled
    /\ args[1] \in Range(table.columns)
    /\ args[2] # 0
    /\ Len(returned.index) < Len(table.index)
    /\ \E D \in Range(returned.index), c \in Range(returned.columns) \ {args[1]} :
          notna(returned.data[c][D]) /\ notna(returned.data[args[1]][D])

(* C20: when the anchor name is not a column of the table a non-zero shift *)
(* moves every column by the same number of rows: each cell of a kept row  *)
(* is the input cell of one and the same earlier (or later) row of its     *)
(* column, so no column is held fixed and the columns stay aligned with    *)
(* each other as they were in the input.                                   *)
C20_MissingAnchorShiftsAllColumns ==
    [][(LeadLagCall /\ args'[1] \notin Range(table.columns) /\ args'[2] # 0) =>
          LET n == args'[2] * 30
          IN  /\ returned'.columns = table.columns
              /\ returned'.index = Filter(table.index, Range(returned'.index))
              /\ \A D \in Range(returned'.index), c \in Range(table.columns) :
                     returned'.data[c][D] = RowValue(table, c, Pos(table.index, D) - n)
              /\ \A D \in Range(table.index) \ Range(returned'.index) :
                     \A c \in Range(table.columns) :
                        IsNaN(RowValue(table, c, Pos(table.index, D) - n))]_vars

(* C20 witness: two columns were shifted around a name that is no column   *)
(* and a kept row holds a moved value of each.                             *)
C20_Witness ==
    /\ LeadLagCalled
    /\ args[1] \notin Range(table.columns)
    /\ args[2] # 0
    /\ Len(table.columns) = 2
    /\ \E D \in Range(returned.index) :
          /\ \A c \in Range(returned.columns) : notna(returned.data[c][D])
          /\ \E c \in Range(returned.columns) : returned.data[c][D] # table.data[c][D]

----------------------------------------------------------------------------
(* The portfolio, the regression and the logarithm *)

PortfolioCalled == fn = "calculate_portfolio"

(* C14: with a single asset at 100% weight the portfolio series equals     *)
(* that asset's Index=100-normalized series at every date, also when the   *)
(* asset's first rows in the table are missing.                            *)
C14_SingleAssetPortfolioIsIndex100 ==
    (PortfolioCalled /\ Len(args[1]) = 1 /\ args[1][1][2] = 100
        /\ args[1][1][1] \in Range(table.columns)) =>
        \A D \in Range(table.index) :
            returned.data["result"][D]
                = normalize_data(table, "Index=100").data[args[1][1][1]][D]

RegressionCalled == fn = "calculate_regression_stats"

(* the dates on which both series of the call have a value *)
PairedDates == {D \in Range(table.index) :
                   notna(table.data[args[1]][D]) /\ notna(table.data[args[2]][D])}

(* C15: when fewer than 2 pairs remain after dropping every pair in which  *)
(* x or y is missing, calculate_regression_stats returns the neutral       *)
(* result (slope 0, R-squared 0) without fitting a model and without       *)
(* raising.                                                                *)
C15_FewerThanTwoPairsIsNeutral ==
    (RegressionCalled /\ Cardinality(PairedDates) < 2) =>
        /\ returned.outcome = "returned"
        /\ ~returned.fitted
        /\ returned.beta = Zero
        /\ returned.r_squared = Zero

(* C15 witness: two rows went in, one pair was dropped for a missing       *)
(* member, and the neutral result came back.                               *)
C15_Witness ==
    /\ RegressionCalled
    /\ args[1] # args[2]
    /\ Len(table.index) = 2
    /\ Cardinality(PairedDates) = 1
    /\ ~returned.fitted
    /\ returned.beta = Zero

LogCalled == fn = "normalize_data" /\ args[1] = "Log Scale"

(* C16: in Log Scale mode normalize_data does not raise, every cell whose  *)
(* value is zero or negative becomes a missing (undefined) result, and     *)
(* every cell with a positive value becomes its natural logarithm.         *)
C16_LogOfNonPositiveIsMissing ==
    LogCalled =>
        \A c \in Range(table.columns), D \in Range(table.index) :
            LET v == table.data[c][D]
            IN  IF IsFin(v) /\ (IsZero(v) \/ v.s = -1)
                THEN IsNaN(returned.data[c][D])
                ELSE IsFin(v) =>
                        returned.data[c][D] \in {Zero, [k |-> "log", s |-> 1,
                                                       m |-> v.m, e |-> v.e]}

Viewed == pc = "normalized" /\ corr_series # NoSeries

(* C17: the rolling correlation is computed on the lead/lag-shifted table, *)
(* over a sliding window of corr_window percent changes, and is missing    *)
(* for at least the first corr_window - 1 points.                          *)
C17_RollingCorrelationOnShiftedTable ==
    Viewed =>
        /\ corr_series = RollingCorrelation(shifted_df, selected_refs, selected_assets,
                                            corr_window)
        /\ \A i \in DOMAIN corr_series.index :
              i < corr_window => IsNaN(corr_series.data["corr"][corr_series.index[i]])

Transformers == {"normalize_data", "apply_lead_lag", "calculate_portfolio",
                 "calculate_technical_indicators"}

(* C18: a call of normalize_data, apply_lead_lag, calculate_portfolio or   *)
(* calculate_technical_indicators leaves the caller's table as it was:     *)
(* the same date axis, the same columns, the same cells, for every mode,   *)
(* shift, weights and window.                                              *)
C18_InputUnmutated ==
    [][(fn = "none" /\ fn' \in Transformers) => table' = table]_vars

(* C18 witness: a non-zero shift returned a table other than its input,    *)
(* with moved values in it.                                                *)
C18_Witness ==
    /\ LeadLagCalled
    /\ args[2] # 0
    /\ args[1] \in Range(table.columns)
    /\ returned # table
    /\ \E D \in Range(returned.index), c \in Range(returned.columns) \ {args[1]} :
          notna(returned.data[c][D]) /\ returned.data[c][D] # table.data[c][D]

FetchStep == pc = "guard" /\ pc' = "fetched"

(* C19: a failed fetch is cached like a success: a call whose body runs    *)
(* stores the table it returns, the failed series' column left out, under  *)
(* its arguments at the current time, and a call with the same arguments   *)
(* less than 3600 seconds later returns that table without a provider      *)
(* request, so the failed series is not requested again before the expiry. *)
C19_FailedFetchIsCached ==
    [][FetchStep =>
          /\ (requests' # requests) =>
                /\ MainKey \in DOMAIN cache'
                /\ cache'[MainKey] = [value |-> combined_df', stored |-> now]
                /\ \A n \in errors' : n \notin Range(cache'[MainKey].value.columns)
          /\ (MainKey \in DOMAIN cache /\ now - cache[MainKey].stored < 3600) =>
                /\ requests' = requests
                /\ errors' = errors
                /\ combined_df' = cache[MainKey].value
                /\ cache' = cache]_vars

(* C19 witness: a later call was served, without a request, a table that   *)
(* lacks a selected series the upstream source holds: the table stored by  *)
(* a call in which that fetch failed.                                      *)
C19_Witness ==
    /\ pc = "fetched"
    /\ calls # <<>>
    /\ requests = <<>>
    /\ MainKey \in DOMAIN cache
    /\ cache[MainKey].stored < now
    /\ combined_df = cache[MainKey].value
    /\ \E n \in Selected : HasData(n) /\ n \notin Range(combined_df.columns)

====
